---- MODULE Spec2Model ----
(***************************************************************************)
(* merge_model_objects (src/django_merge_model_objects.py): one call of    *)
(* the merge procedure over a small relational store.                      *)
(*                                                                         *)
(* The store holds three rows of the merged table (two instances of the    *)
(* model class M and one instance of a subclass SubM), each with the local *)
(* fields id (the AutoField), name and parent_id (a foreign key to the     *)
(* same table), one record of another table with a foreign key to M, two   *)
(* records with a one-to-one key to M, one record with a many-to-many      *)
(* field to M, and a symmetrical many-to-many field friends of M itself.   *)
(*                                                                         *)
(* The ORM is modelled by what its operations do to the store.  Objects    *)
(* held by the caller (primary_object, the aliases) are in-memory copies   *)
(* of their rows, read when the call starts; the objects a related manager *)
(* returns are fresh copies of the rows they come from; save() writes an   *)
(* object's fields to its row; delete() removes the row and nothing else.  *)
(* The relationships the helpers get_all_related_many_to_many_objects,     *)
(* get_all_related_one_to_one_objects and get_all_related_one_to_many_     *)
(* objects enumerate (the file calls them and does not define them) are    *)
(* the ones of this schema.  The walk over local_fields of lines 48-58     *)
(* reaches, through the accessor of parent_id, the rows whose parent is    *)
(* the alias.  Each save of a re-pointed record may raise.                 *)
(***************************************************************************)
EXTENDS Naturals, Sequences, FiniteSets, TLC

\* Bounds of the model.
MaxAliases == 2
MaxFacts == 2

None == "None"
Blank == {None, ""}

MRows == {"m1", "m2", "s3"}
FKRecs == {"r1"}
O2ORecs == {"o1", "o2"}
Holders == {"h1"}
FriendPairs == {{"m1", "m2"}, {"m1", "s3"}, {"m2", "s3"}}
OwnName == [m \in MRows |-> IF m = "m1" THEN "ann" ELSE IF m = "m2" THEN "bob" ELSE "cy"]

\* Python classes of the objects a caller can pass.
ClassOf(o) ==
    IF o \in {"m1", "m2"} THEN "M"
    ELSE IF o = "s3" THEN "SubM"
    ELSE IF o = "x4" THEN "Other"
    ELSE "object"

Bases(c) ==
    IF c = "SubM" THEN {"SubM", "M", "Model", "object"}
    ELSE IF c = "M" THEN {"M", "Model", "object"}
    ELSE IF c = "Other" THEN {"Other", "Model", "object"}
    ELSE {"object"}

issubclass(c, d) == d \in Bases(c)

isinstance(o, c) == issubclass(ClassOf(o), c)

\* primary_object._meta.local_fields, by attname.
local_fields == {"id", "name", "parent_id"}

VARIABLES
    primary_object,      \* the caller's in-memory primary: [id, name, parent_id]
    alias_arg,           \* the alias_objects argument as passed
    alias_objects,       \* the alias list after lines 20-21
    migrate_data,
    keep_old,
    db,                  \* the store
    db0,                 \* the store when the call started
    primary0,            \* primary_object when the call started
    blank_local_fields,
    idx,                 \* position of the outer loop (line 45)
    todo,                \* objects of the inner loop still to visit
    pc,
    log                  \* the writes issued so far, in order

vars == <<primary_object, alias_arg, alias_objects, migrate_data, keep_old, db, db0,
          primary0, blank_local_fields, idx, todo, pc, log>>

inputs == <<alias_arg, migrate_data, keep_old, db0, primary0>>

----------------------------------------------------------------------------
\* The store and its queries.

Load(d, o) ==
    IF o \in MRows
    THEN [id |-> o, name |-> d.rows[o].name, parent_id |-> d.rows[o].parent_id]
    ELSE [id |-> o, name |-> None, parent_id |-> None]

Facts(d) ==
    Cardinality({m \in MRows : d.rows[m].name # None})
    + Cardinality({m \in MRows : d.rows[m].parent_id # None})
    + Cardinality({r \in FKRecs : d.fk[r] # None})
    + Cardinality({o \in O2ORecs : d.o2o[o] # None})
    + Cardinality(d.m2m)
    + Cardinality(d.friends)

Stores ==
    {d \in [exists : {MRows},
            rows : [MRows -> [name : {None, "", "own"}, parent_id : MRows \cup {None}]],
            fk : [FKRecs -> MRows \cup {None}],
            o2o : [O2ORecs -> MRows \cup {None}],
            m2m : SUBSET (Holders \X MRows),
            friends : SUBSET FriendPairs] :
        /\ Facts(d) <= MaxFacts
        /\ \A o1, o2 \in O2ORecs : (o1 # o2 /\ d.o2o[o1] # None) => d.o2o[o1] # d.o2o[o2]}

Named(d) ==
    [d EXCEPT !.rows = [m \in MRows |->
        [name |-> IF d.rows[m].name = "own" THEN OwnName[m] ELSE d.rows[m].name,
         parent_id |-> d.rows[m].parent_id]]]

ParentReferrers(d, a) == {[kind |-> "row", key |-> m] : m \in {x \in d.exists : d.rows[x].parent_id = a}}

FKReferrers(d, a) == {[kind |-> "fk", key |-> r] : r \in {x \in FKRecs : d.fk[x] = a}}

\* The objects reached through the alias's reverse foreign keys (lines 86-89).
RelatedOneToMany(d, a) == FKReferrers(d, a) \cup ParentReferrers(d, a)

O2OLinked(d, a) == {o \in O2ORecs : d.o2o[o] = a}

hasattr_o2o(d, a) == O2OLinked(d, a) # {}

SaveRepointed(d, obj, target) ==
    IF obj.kind = "row" THEN [d EXCEPT !.rows[obj.key].parent_id = target]
    ELSE IF obj.kind = "fk" THEN [d EXCEPT !.fk[obj.key] = target]
    ELSE [d EXCEPT !.o2o[obj.key] = target]

----------------------------------------------------------------------------
AsList(arg) == IF arg.kind = "list" THEN arg.items ELSE <<arg.obj>>

primary_class == ClassOf(primary_object.id)

\* A check that looks at the first alias only.
AliasesTypeOk_first(aliases, cls) == Len(aliases) >= 1 => isinstance(aliases[1], cls)

\* Lines 30-32.
AliasesTypeOk(aliases, cls) == \A i \in DOMAIN aliases : isinstance(aliases[i], cls)

\* Every local field taken as a back-fill candidate.
ComputeBlank_all(obj) == local_fields

\* Line 42.
ComputeBlank(obj) == {f \in local_fields : obj[f] \in Blank}

alias_object == alias_objects[idx]

AliasMem(a) == IF a = primary_object.id THEN primary_object ELSE Load(db0, a)

Event(op, obj) == [op |-> op, obj |-> obj, idx |-> idx]

SeqsUpTo(S, n) == UNION {[1..k -> S] : k \in 0..n}

Init ==
    /\ \E d \in Stores : db0 = Named(d)
    /\ db = db0
    /\ \E p \in {"m1", "s3", "n5"} : primary_object = Load(db0, p)
    /\ primary0 = primary_object
    /\ \/ \E s \in SeqsUpTo({"m1", "m2", "s3", "x4"}, MaxAliases) :
            alias_arg = [kind |-> "list", items |-> s, obj |-> None]
       \/ \E o \in {"m2", "s3", "x4"} :
            alias_arg = [kind |-> "obj", items |-> <<>>, obj |-> o]
    /\ alias_objects = <<>>
    /\ migrate_data \in BOOLEAN
    /\ keep_old \in BOOLEAN
    /\ blank_local_fields = {}
    /\ idx = 0
    /\ todo = {}
    /\ pc = "validate"
    /\ log = <<>>

----------------------------------------------------------------------------
\* Lines 20-32: normalise the alias argument and check the types.

RaiseNotModel ==
    /\ pc = "validate"
    /\ ~issubclass(primary_class, "Model")
    /\ alias_objects' = AsList(alias_arg)
    /\ pc' = "TypeError"
    /\ UNCHANGED <<primary_object, db, blank_local_fields, idx, todo, log>>
    /\ UNCHANGED inputs

RaiseNotSameClass ==
    /\ pc = "validate"
    /\ issubclass(primary_class, "Model")
    /\ ~AliasesTypeOk(AsList(alias_arg), primary_class)
    /\ alias_objects' = AsList(alias_arg)
    /\ pc' = "TypeError"
    /\ UNCHANGED <<primary_object, db, blank_local_fields, idx, todo, log>>
    /\ UNCHANGED inputs

\* Line 45 (entering the loop body for the alias at position i, the store being d)
\* and lines 47-55: with migrate_data the local fields of the alias are walked
\* first; id is an AutoField, name has no related manager, parent_id yields the
\* rows whose parent is the alias.
EnterAlias(i, d) ==
    /\ idx' = i
    /\ IF migrate_data
       THEN /\ pc' = "direct"
            /\ todo' = ParentReferrers(d, AsList(alias_arg)[i])
       ELSE /\ pc' = "m2m"
            /\ todo' = {}

\* Line 45 (loop exhausted) or the next alias.
Advance(d) ==
    IF idx < Len(alias_objects)
    THEN EnterAlias(idx + 1, d)
    ELSE /\ pc' = "save"
         /\ UNCHANGED <<idx, todo>>

\* Lines 34-45.
BeginMerge ==
    /\ pc = "validate"
    /\ issubclass(primary_class, "Model")
    /\ AliasesTypeOk(AsList(alias_arg), primary_class)
    /\ alias_objects' = AsList(alias_arg)
    /\ blank_local_fields' = ComputeBlank(primary_object)
    /\ IF Len(AsList(alias_arg)) = 0
       THEN pc' = "save" /\ UNCHANGED <<idx, todo>>
       ELSE EnterAlias(1, db)
    /\ UNCHANGED <<primary_object, db, log>>
    /\ UNCHANGED inputs

\* Lines 56-58 and 90-92: one iteration of `for obj in ...`, the save succeeding.
RepointAndSave ==
    /\ pc \in {"direct", "fk"}
    /\ \E obj \in todo :
        /\ db' = SaveRepointed(db, obj, primary_object.id)
        /\ log' = Append(log, Event("save", obj.key))
        /\ todo' = todo \ {obj}
    /\ UNCHANGED <<primary_object, alias_objects, blank_local_fields, idx, pc>>
    /\ UNCHANGED inputs

\* A save that raises and is swallowed: the loop goes on with the next object.
SaveRaises_swallowed(obj) ==
    /\ log' = Append(log, Event("save_failed", obj.key))
    /\ IF pc = "o2o"
       THEN /\ pc' = "fk"
            /\ todo' = RelatedOneToMany(db, alias_object)
       ELSE /\ pc' = pc
            /\ todo' = todo \ {obj}
    /\ UNCHANGED <<primary_object, alias_objects, db, blank_local_fields, idx>>
    /\ UNCHANGED inputs

\* Lines 58, 83, 92: obj.save() raises.  Nothing catches the exception: it leaves
\* the function, and the transaction.atomic block of line 7 rolls the store back.
SaveRaises(obj) ==
    /\ log' = Append(log, Event("save_failed", obj.key))
    /\ pc' = "raised"
    /\ db' = db0
    /\ todo' = {}
    /\ UNCHANGED <<primary_object, alias_objects, blank_local_fields, idx>>
    /\ UNCHANGED inputs

RepointSaveFails ==
    /\ pc \in {"direct", "fk"}
    /\ \E obj \in todo : SaveRaises(obj)

\* Line 48 exhausted.
DirectDone ==
    /\ pc = "direct"
    /\ todo = {}
    /\ pc' = "m2m"
    /\ UNCHANGED <<primary_object, alias_objects, db, blank_local_fields, idx, todo, log>>
    /\ UNCHANGED inputs

\* Lines 61-73: every object linked to the alias through a many-to-many field
\* drops the alias and takes the primary.  Two relationships: the field of the
\* holders (reverse accessor, lines 65-67) and the symmetrical field friends of
\* the merged table itself (no reverse accessor, lines 68-70).
MigrateManyToMany ==
    /\ pc = "m2m"
    /\ LET hs == {h \in Holders : <<h, alias_object>> \in db.m2m}
           fs == {x \in db.exists : {x, alias_object} \in db.friends}
       IN  /\ db' = [db EXCEPT
                        !.m2m = (@ \ {<<h, alias_object>> : h \in hs})
                                \cup {<<h, primary_object.id>> : h \in hs},
                        !.friends = (@ \ {{x, alias_object} : x \in fs})
                                    \cup {{x, primary_object.id} : x \in fs}]
           /\ log' = IF hs \cup fs = {} THEN log ELSE Append(log, Event("m2m", alias_object))
    /\ pc' = "o2o"
    /\ UNCHANGED <<primary_object, alias_objects, blank_local_fields, idx, todo>>
    /\ UNCHANGED inputs

\* The alias's linked record taken whatever the primary has.
ShouldRepointOneToOne_always(d, alias, primary) == hasattr_o2o(d, alias)

\* Lines 79-81: the alias's linked record is taken only if the alias has one and
\* the primary has none.
ShouldRepointOneToOne(d, alias, primary) ==
    hasattr_o2o(d, alias) /\ ~hasattr_o2o(d, primary)

\* Lines 76-83, the save succeeding; then lines 86-89 fetch the reverse foreign keys.
MigrateOneToOne ==
    /\ pc = "o2o"
    /\ ShouldRepointOneToOne(db, alias_object, primary_object.id)
    /\ \E o \in O2OLinked(db, alias_object) :
        /\ db' = SaveRepointed(db, [kind |-> "o2o", key |-> o], primary_object.id)
        /\ log' = Append(log, Event("save", o))
    /\ pc' = "fk"
    /\ todo' = RelatedOneToMany(db', alias_object)
    /\ UNCHANGED <<primary_object, alias_objects, blank_local_fields, idx>>
    /\ UNCHANGED inputs

MigrateOneToOneSaveFails ==
    /\ pc = "o2o"
    /\ ShouldRepointOneToOne(db, alias_object, primary_object.id)
    /\ \E o \in O2OLinked(db, alias_object) : SaveRaises([kind |-> "o2o", key |-> o])

\* Lines 79-81 with related_alias_object None.
SkipOneToOne ==
    /\ pc = "o2o"
    /\ ~ShouldRepointOneToOne(db, alias_object, primary_object.id)
    /\ pc' = "fk"
    /\ todo' = RelatedOneToMany(db, alias_object)
    /\ UNCHANGED <<primary_object, alias_objects, db, blank_local_fields, idx, log>>
    /\ UNCHANGED inputs

\* Line 86 exhausted.
ForeignKeysDone ==
    /\ pc = "fk"
    /\ todo = {}
    /\ pc' = "backfill"
    /\ UNCHANGED <<primary_object, alias_objects, db, blank_local_fields, idx, todo, log>>
    /\ UNCHANGED inputs

\* Lines 95-100.
FilledUp(blank, alias) == {f \in blank : alias[f] \notin Blank}

\* The filled fields left among the candidates.
RemainingBlank_kept(blank, filled_up) == blank

\* Line 101.
RemainingBlank(blank, filled_up) == blank \ filled_up

\* Lines 94-101.
BackFill ==
    /\ pc = "backfill"
    /\ LET alias == AliasMem(alias_object)
           filled_up == FilledUp(blank_local_fields, alias)
       IN  /\ primary_object' = [f \in DOMAIN primary_object |->
                                    IF f \in filled_up THEN alias[f] ELSE primary_object[f]]
           /\ blank_local_fields' = RemainingBlank(blank_local_fields, filled_up)
           /\ log' = IF filled_up = {} THEN log ELSE Append(log, Event("setattr", alias_object))
    /\ pc' = "delete"
    /\ UNCHANGED <<alias_objects, db, idx, todo>>
    /\ UNCHANGED inputs

\* Lines 103-104 with keep_old false, then the next iteration of line 45.
DeleteAlias ==
    /\ pc = "delete"
    /\ ~keep_old
    /\ db' = [db EXCEPT !.exists = @ \ {alias_object}]
    /\ log' = Append(log, Event("delete", alias_object))
    /\ Advance(db')
    /\ UNCHANGED <<primary_object, alias_objects, blank_local_fields>>
    /\ UNCHANGED inputs

\* Line 103 with keep_old true.
KeepAlias ==
    /\ pc = "delete"
    /\ keep_old
    /\ Advance(db)
    /\ UNCHANGED <<primary_object, alias_objects, db, blank_local_fields, log>>
    /\ UNCHANGED inputs

\* Lines 105-106: primary_object.save() writes the in-memory fields to its row.
SavePrimary ==
    /\ pc = "save"
    /\ db' = [db EXCEPT !.rows[primary_object.id] =
                            [name |-> primary_object.name, parent_id |-> primary_object.parent_id],
                        !.exists = @ \cup {primary_object.id}]
    /\ log' = Append(log, Event("save_primary", primary_object.id))
    /\ pc' = "done"
    /\ UNCHANGED <<primary_object, alias_objects, blank_local_fields, idx, todo>>
    /\ UNCHANGED inputs

Next ==
    \/ RaiseNotModel
    \/ RaiseNotSameClass
    \/ BeginMerge
    \/ RepointAndSave
    \/ RepointSaveFails
    \/ DirectDone
    \/ MigrateManyToMany
    \/ MigrateOneToOne
    \/ MigrateOneToOneSaveFails
    \/ SkipOneToOne
    \/ ForeignKeysDone
    \/ BackFill
    \/ DeleteAlias
    \/ KeepAlias
    \/ SavePrimary

Spec == Init /\ [][Next]_vars

----------------------------------------------------------------------------
\* Properties.

ArgList == AsList(alias_arg)

\* The aliases of the call: the listed objects other than the primary.
Aliases == {alias_objects[i] : i \in DOMAIN alias_objects} \ {primary0.id}

PreCall(a) == Load(db0, a)

\* The references to row t held in store d.
RefsTo(d, t) ==
    {<<"row", m>> : m \in {x \in d.exists : d.rows[x].parent_id = t}}
    \cup {<<"fk", r>> : r \in {x \in FKRecs : d.fk[x] = t}}
    \cup {<<"o2o", o>> : o \in {x \in O2ORecs : d.o2o[x] = t}}
    \cup {<<"m2m", h>> : h \in {x \in Holders : <<x, t>> \in d.m2m}}
    \cup {<<"friends", m>> : m \in {x \in d.exists : {x, t} \in d.friends}}

BadInput ==
    \/ "Model" \notin Bases(ClassOf(primary0.id))
    \/ \E i \in DOMAIN ArgList : ClassOf(primary0.id) \notin Bases(ClassOf(ArgList[i]))

\* C1: a call whose primary is not a model instance, or one of whose aliases (at
\* any position) fails the type check, ends with the TypeError and has mutated
\* nothing: the store, the primary and the list of issued writes are as at the start.
C1_TypeErrorBeforeAnyMutation ==
    BadInput => /\ pc \in {"validate", "TypeError"}
                /\ db = db0
                /\ primary_object = primary0
                /\ log = <<>>

C1_Witness ==
    /\ pc = "TypeError"
    /\ Len(alias_objects) = 2
    /\ alias_objects[1] = "m2"
    /\ alias_objects[2] = "x4"
    /\ primary0.id = "m1"
    /\ db0.fk["r1"] = "m2"

\* C2: after a call that completes with migrate_data true and keep_old false, no
\* record references a deleted alias, and every reference that pointed to an alias
\* before the call points to the primary.
C2_AllReferencesMoved ==
    (pc = "done" /\ migrate_data /\ ~keep_old) =>
        \A a \in Aliases :
            /\ RefsTo(db, a) = {}
            /\ \A r \in RefsTo(db0, a) :
                (r[1] \in {"row", "friends"} => r[2] \in db.exists) => r \in RefsTo(db, primary0.id)

Processed ==
    IF pc \in {"save", "done"} THEN Len(alias_objects)
    ELSE IF pc = "delete" THEN idx
    ELSE IF pc \in {"validate", "TypeError"} THEN 0
    ELSE idx - 1

ExpectedFill(f, n) ==
    LET cands == {i \in 1..n : PreCall(alias_objects[i])[f] \notin Blank}
    IN  IF cands = {} THEN primary0[f]
        ELSE PreCall(alias_objects[CHOOSE i \in cands : \A j \in cands : i <= j])[f]

\* C3: a field that is blank on the primary when the call starts holds, after each
\* alias and in the result, the value of the first alias so far whose value is not
\* blank, and stays as it was if there is none.
C3_FirstNonBlankAliasWins ==
    \A f \in local_fields :
        primary0[f] \in Blank => primary_object[f] = ExpectedFill(f, Processed)

C3_Witness ==
    /\ pc = "done"
    /\ Len(alias_objects) = 2
    /\ primary0.name \in Blank
    /\ PreCall(alias_objects[1]).name \notin Blank
    /\ PreCall(alias_objects[2]).name \notin Blank
    /\ alias_objects[1] # alias_objects[2]
    /\ primary_object.name = PreCall(alias_objects[1]).name

C5_PrimaryLinkWins ==
    [][(pc = "o2o" /\ O2OLinked(db, primary0.id) # {}) => (db'.o2o = db.o2o /\ log' = log)]_vars

C5_Witness ==
    /\ pc = "fk"
    /\ idx = 2
    /\ alias_object # primary0.id
    /\ \E i \in DOMAIN log : log[i].op = "save" /\ log[i].obj \in O2ORecs /\ log[i].idx = 1
    /\ \E o \in O2ORecs : db.o2o[o] = alias_object /\ db0.o2o[o] = alias_object

\* C6: after a call that completes with keep_old true and migrate_data true, every
\* alias still exists and no relationship of any kind points to an alias.
C6_KeptAliasesAreOrphaned ==
    (pc = "done" /\ keep_old /\ migrate_data) =>
        \A a \in Aliases : a \in db.exists /\ RefsTo(db, a) = {}

\* C7: a call with an alias whose class is not the primary's own class, a subclass
\* included, fails with the TypeError and never reaches the merge loop.
C7_SameConcreteClassRequired ==
    (\E i \in DOMAIN ArgList : ClassOf(ArgList[i]) # ClassOf(primary0.id)) =>
        pc \in {"validate", "TypeError"}

\* C8: once a save of a re-pointed record has failed, the call is over and nothing
\* more is written: the failure is the last event, no alias at or after the
\* position being processed is deleted and the primary is not saved.
C8_SaveFailureStopsTheCall ==
    \A i \in DOMAIN log :
        log[i].op = "save_failed" =>
            /\ i = Len(log)
            /\ pc = "raised"
            /\ \A j \in DOMAIN log :
                /\ log[j].op = "delete" => log[j].idx < log[i].idx
                /\ log[j].op # "save_primary"
                /\ log[j].op = "setattr" => log[j].idx < log[i].idx

C8_Witness ==
    /\ pc = "raised"
    /\ idx = 2
    /\ Len(log) >= 3
    /\ log[Len(log)].op = "save_failed"
    /\ \E j \in DOMAIN log : log[j].op = "delete" /\ log[j].idx = 1
    /\ \E j \in DOMAIN log : log[j].op = "save" /\ log[j].idx = 2

\* C10: no delete is issued for the primary, no record is deleted twice, and the
\* primary's row exists when the call returns.
C10_PrimaryNeverDeleted ==
    /\ \A i \in DOMAIN log : log[i].op = "delete" => log[i].obj # primary0.id
    /\ \A i, j \in DOMAIN log :
        (log[i].op = "delete" /\ log[j].op = "delete" /\ log[i].obj = log[j].obj) => i = j
    /\ pc = "done" => primary0.id \in db.exists
====
